---- MODULE Spec2Model ----
(***************************************************************************)
(* Timeline / playback core of the drone flight simulator.                 *)
(*                                                                         *)
(* Numbers.  Every time value of the program (sample times, currentTime,   *)
(* totalTime, offsets, marker times, the two clock refs' accumulated time) *)
(* is an integer number of tenths of a second.  The wall clock             *)
(* (performance.now()) is an integer number of seconds, and a playback     *)
(* speed or a zoom level is an integer number of tenths, so that           *)
(*   (now - startTimeRef) / 1000 * playbackSpeed                           *)
(* of the source is (now - startTimeRef) * playbackSpeed here, exactly.    *)
(***************************************************************************)
EXTENDS Integers, Sequences, FiniteSets, TLC

VARIABLES
  \* useDroneManager state (src/unnamed/part_002)
  drones,          \* sequence of DroneInstance
  activeDroneId,   \* id of the active drone, 0 for null
  isLoading,
  error,           \* "" for null
  pending,         \* addDrone calls awaiting loadCsvData: set of [id, file]
  nextDroneId,     \* generateDroneId: ids are fresh
  \* useTimeline state (src/src/components/StatsDisplay.tsx)
  currentTime,
  totalTime,
  isPlaying,
  playbackSpeed,
  zoomLevel,
  selectedDrones,
  playMode,
  loopEnabled,
  markers,
  droneOffsets,
  playbackRange,
  startTimeRef,
  pausedTimeRef,
  nextMarkerId,    \* marker ids are fresh
  \* TimelinePanel state (src/src/components/Layout/AppLayout.tsx)
  viewportWidth,   \* window.innerWidth, in pixels
  viewportOffset,  \* timeline panning offset, in pixels, a rational
  draggingTrack,   \* the track being dragged, NoDrag for null
  wheelCount,      \* wheel gestures handled so far
  \* the browser's frame queue as useTimeline's animation effect uses it
  pendingTicks,    \* animate callbacks requested and neither run nor cancelled
  refPending,      \* whether animationFrameRef.current names one of them
  mounted,         \* whether the component holding the hook is mounted
  \* environment
  now,             \* performance.now()
  \* bookkeeping of the verification
  lastOp,          \* the handler that ran last, its argument, and how many
                   \* times in a row it ran with that argument (capped at 2)
  call             \* a pure function applied to drawn inputs

dmVars    == <<drones, activeDroneId, isLoading, error, pending, nextDroneId>>
clockVars == <<currentTime, isPlaying, playbackSpeed, loopEnabled, playbackRange,
               startTimeRef, pausedTimeRef>>
tlVars    == <<totalTime, zoomLevel, selectedDrones, playMode, markers,
               droneOffsets, nextMarkerId>>
panelVars == <<viewportWidth, viewportOffset, draggingTrack, wheelCount>>
frameVars == <<pendingTicks, refPending, mounted>>
vars      == <<dmVars, clockVars, tlVars, panelVars, frameVars, now, lastOp, call>>

----------------------------------------------------------------------------
(* Bounds of the model *)
MaxT       == 3    \* sample times of the drawn sequences range over 0..MaxT
MaxLen     == 3    \* longest drawn sample sequence
MaxRows    == 2    \* most data rows of a drawn CSV text
MaxNow     == 3    \* the wall clock stops advancing at MaxNow seconds
MaxMarkers == 3    \* most markers ever created in one behaviour
MaxLoads   == 3    \* most addDrone calls in one behaviour
MaxWheels  == 2    \* most wheel gestures in one behaviour
MaxTracks  == 1    \* most drones loaded or loading at once where tracks are dragged
MaxDragged == 300  \* largest offset a track is dragged to
MaxSnapped == 30   \* largest offset a track is dragged to where tick intervals are checked

(* Program constants, in tenths *)
MinSpeed      == 1
MaxSpeed      == 40
MinZoom       == 1
MaxZoom       == 100
WheelMinZoom  == 1      \* the bounds handleWheel puts on the zoom it asks for
WheelMaxZoom  == 200

Max(a, b) == IF a >= b THEN a ELSE b
Min(a, b) == IF a <= b THEN a ELSE b

Range(s) == {s[i] : i \in DOMAIN s}

----------------------------------------------------------------------------
(* Numbers that are not whole: a zoom level, a pixel position.  A number   *)
(* is the fraction n / d in lowest terms with d > 0, so that two numbers   *)
(* are equal exactly when their records are.                               *)

Abs(a) == IF a < 0 THEN -a ELSE a

RECURSIVE Gcd(_, _)
Gcd(a, b) == IF b = 0 THEN a ELSE Gcd(b, a % b)

Rat(n, d) ==
  LET g == Gcd(Abs(n), Abs(d))
      s == IF d < 0 THEN -1 ELSE 1
  IN  [n |-> (s * n) \div g, d |-> Abs(d) \div g]

RInt(n) == [n |-> n, d |-> 1]

RAdd(a, b) ==
  LET g == Gcd(a.d, b.d)
  IN  Rat(a.n * (b.d \div g) + b.n * (a.d \div g), (a.d \div g) * b.d)

RNeg(a) == [n |-> -a.n, d |-> a.d]

RSub(a, b) == RAdd(a, RNeg(b))

RMul(a, b) ==
  LET g1 == Gcd(Abs(a.n), b.d)
      g2 == Gcd(Abs(b.n), a.d)
  IN  Rat((a.n \div g1) * (b.n \div g2), (a.d \div g2) * (b.d \div g1))

\* a / b for b # 0
RDiv(a, b) == RMul(a, Rat(b.d, b.n))

RLe(a, b) ==
  LET g == Gcd(a.d, b.d)
  IN  a.n * (b.d \div g) <= b.n * (a.d \div g)

RLt(a, b) == ~RLe(b, a)

RMax(a, b) == IF RLe(b, a) THEN a ELSE b
RMin(a, b) == IF RLe(a, b) THEN a ELSE b

\* Math.round: the nearest integer, a half rounding up
RRound(a) == (2 * a.n + a.d) \div (2 * a.d)

----------------------------------------------------------------------------
(* DroneFrame and the Frame Resolver *)

Frame(t, x) == [time |-> t, x |-> x, y |-> 0, z |-> 0, roll |-> 0, pitch |-> 0, yaw |-> 0]

\* the while loop of findFrameIndexAtTime; frames[i] of the source is
\* frames[i + 1] here, the index returned is the source's 0-based index
RECURSIVE BinarySearch(_, _, _, _)
BinarySearch(frames, targetTime, left, right) ==
  IF left <= right
  THEN LET mid     == (left + right) \div 2
           midTime == frames[mid + 1].time
       IN  IF midTime = targetTime THEN mid
           ELSE IF midTime < targetTime
                THEN BinarySearch(frames, targetTime, mid + 1, right)
                ELSE BinarySearch(frames, targetTime, left, mid - 1)
  ELSE Max(0, Min(right, Len(frames) - 1))

findFrameIndexAtTime(frames, targetTime) ==
  IF Len(frames) = 0 THEN 0
  ELSE BinarySearch(frames, targetTime, 0, Len(frames) - 1)

\* stable insertion of one element into a sequence sorted by time
RECURSIVE InsertByTime(_, _)
InsertByTime(s, e) ==
  IF s = <<>> THEN <<e>>
  ELSE IF s[Len(s)].time <= e.time THEN Append(s, e)
       ELSE Append(InsertByTime(SubSeq(s, 1, Len(s) - 1), e), s[Len(s)])

\* Array.prototype.sort((a, b) => a.time - b.time): a stable sort
RECURSIVE SortByTime(_)
SortByTime(s) ==
  IF s = <<>> THEN <<>>
  ELSE InsertByTime(SortByTime(SubSeq(s, 1, Len(s) - 1)), s[Len(s)])

----------------------------------------------------------------------------
(* loadCsvData.  A text is the sequence of its lines, a line the sequence  *)
(* of its comma-separated cells, the empty line the empty sequence.  A     *)
(* cell carries its string and what parseFloat makes of it.                *)

Txt(s) == [s |-> s, isNum |-> FALSE, n |-> 0]   \* parseFloat gives NaN
Num(n) == [s |-> "#", isNum |-> TRUE, n |-> n]  \* parseFloat gives n

\* parseFloat(cols[i]) || 0
ParseFloatOrZero(cell) == IF cell.isNum THEN cell.n ELSE 0

\* header.indexOf(name), 0-based, -1 when absent
IndexOf(header, name) ==
  IF \E i \in DOMAIN header : header[i].s = name
  THEN (CHOOSE i \in DOMAIN header :
          /\ header[i].s = name
          /\ \A j \in DOMAIN header : header[j].s = name => i <= j) - 1
  ELSE -1

ColumnNotFound(name) ==
  CASE name = "drone_x"      -> "Column 'drone_x' not found in CSV"
    [] name = "drone_y"      -> "Column 'drone_y' not found in CSV"
    [] name = "drone_z"      -> "Column 'drone_z' not found in CSV"
    [] name = "drone_roll"   -> "Column 'drone_roll' not found in CSV"
    [] name = "drone_pitch"  -> "Column 'drone_pitch' not found in CSV"
    [] name = "drone_yaw"    -> "Column 'drone_yaw' not found in CSV"
    [] name = "elapsed_time" -> "Column 'elapsed_time' not found in CSV"

\* the names getColumnIndex is called with, in the order of the calls
RequiredColumns ==
  <<"drone_x", "drone_y", "drone_z", "drone_roll", "drone_pitch", "drone_yaw", "elapsed_time">>

Failure(msg) == [ok |-> FALSE, error |-> msg, frames |-> <<>>]
Success(fr)  == [ok |-> TRUE, error |-> "", frames |-> fr]

\* the for loop over the data lines: short lines are skipped
RECURSIVE ParseRows(_, _)
ParseRows(lines, indices) ==
  IF lines = <<>> THEN <<>>
  ELSE LET cols == Head(lines)
           rest == ParseRows(Tail(lines), indices)
           maxIndex == CHOOSE m \in Range(indices) : \A k \in Range(indices) : k <= m
       IN  IF Len(cols) <= maxIndex THEN rest
           ELSE <<[x     |-> ParseFloatOrZero(cols[indices[1] + 1]),
                   y     |-> ParseFloatOrZero(cols[indices[2] + 1]),
                   z     |-> ParseFloatOrZero(cols[indices[3] + 1]),
                   roll  |-> ParseFloatOrZero(cols[indices[4] + 1]),
                   pitch |-> ParseFloatOrZero(cols[indices[5] + 1]),
                   yaw   |-> ParseFloatOrZero(cols[indices[6] + 1]),
                   time  |-> ParseFloatOrZero(cols[indices[7] + 1])]>> \o rest

\* text.split(/\r?\n/).filter(Boolean)
NonEmptyLines(text) == SelectSeq(text, LAMBDA l : l # <<>>)

loadCsvData(source) ==
  IF source.kind = "url" /\ ~source.ok THEN Failure("Failed to fetch CSV: 404")
  ELSE LET lines == NonEmptyLines(source.text)
       IN  IF Len(lines) = 0 THEN Failure("CSV file is empty")
           ELSE LET header  == Head(lines)
                    indices == [k \in DOMAIN RequiredColumns |-> IndexOf(header, RequiredColumns[k])]
                    missing == {k \in DOMAIN RequiredColumns : indices[k] = -1}
                IN  IF missing # {}
                    THEN Failure(ColumnNotFound(
                           RequiredColumns[CHOOSE k \in missing : \A m \in missing : k <= m]))
                    ELSE Success(SortByTime(ParseRows(Tail(lines), indices)))

(* The CSV texts the model draws *)
ColumnKeys == <<"time", "x", "y", "z", "roll", "pitch", "yaw">>
StdName(k) ==
  CASE k = "time" -> "elapsed_time" [] k = "x" -> "drone_x" [] k = "y" -> "drone_y"
    [] k = "z" -> "drone_z" [] k = "roll" -> "drone_roll" [] k = "pitch" -> "drone_pitch"
    [] k = "yaw" -> "drone_yaw"

\* style[k] is "std" (drone_x), "alias" (x) or "none" (column absent)
HeaderOf(style) ==
  LET cellOf(k) == IF style[k] = "std" THEN <<Txt(StdName(k))>>
                   ELSE IF style[k] = "alias" THEN <<Txt(k)>> ELSE <<>>
  IN  cellOf("time") \o cellOf("x") \o cellOf("y") \o cellOf("z")
        \o cellOf("roll") \o cellOf("pitch") \o cellOf("yaw")

AllStd   == [k \in Range(ColumnKeys) |-> "std"]
AllAlias == [k \in Range(ColumnKeys) |-> "alias"]
HeaderStyles ==
  [Range(ColumnKeys) -> {"std", "alias"}]
    \cup {[AllStd EXCEPT ![k] = "none"] : k \in Range(ColumnKeys)}

\* a full data row: time t, x = t + 1, the rest 0
Row(t)   == <<Num(t), Num(t + 1), Num(0), Num(0), Num(0), Num(0), Num(0)>>
RowBad   == <<Txt("abc"), Num(7), Txt(""), Num(0), Num(0), Num(0), Num(0)>>
RowShort == <<Num(1), Num(2)>>
DataLines == {Row(0), Row(1), Row(2), RowBad, RowShort, <<>>}

SeqsUpTo(S, n) == UNION {[1..m -> S] : m \in 0..n}

FileSource(text) == [kind |-> "file", ok |-> TRUE, text |-> text]
UrlFailure       == [kind |-> "url", ok |-> FALSE, text |-> <<>>]
CsvSources ==
  {FileSource(<<HeaderOf(st)>> \o rows) : st \in HeaderStyles, rows \in SeqsUpTo(DataLines, MaxRows)}
    \cup {FileSource(rows) : rows \in SeqsUpTo({<<>>}, MaxRows)}
    \cup {UrlFailure}

----------------------------------------------------------------------------
(* The state after construction: useState / useRef initial values *)

NoOp   == [op |-> "none", arg |-> 0, n |-> 0]
NoCall == [fn |-> "none", arg |-> 0, done |-> FALSE, ret |-> 0]

InitDroneManager ==
  /\ drones = <<>>
  /\ activeDroneId = 0
  /\ isLoading = FALSE
  /\ error = ""
  /\ pending = {}
  /\ nextDroneId = 1

NoDrag == [none |-> TRUE]

\* a window 1150 pixels wide
InitialWidth == 1150

\* no frame was requested yet: animationFrameRef is useRef(undefined)
InitFrames ==
  /\ pendingTicks = 0
  /\ refPending = FALSE
  /\ mounted = TRUE

InitPanel ==
  /\ viewportWidth = InitialWidth
  /\ viewportOffset = RInt(0)
  /\ draggingTrack = NoDrag
  /\ wheelCount = 0

InitTimeline ==
  /\ currentTime = 0
  /\ totalTime = 0
  /\ isPlaying = FALSE
  /\ playbackSpeed = 10
  /\ zoomLevel = RInt(1)
  /\ selectedDrones = <<>>
  /\ playMode = "simultaneous"
  /\ loopEnabled = FALSE
  /\ markers = <<>>
  /\ droneOffsets = <<>>
  /\ playbackRange = [start |-> 0, end |-> 0, enabled |-> FALSE]
  /\ startTimeRef = 0
  /\ pausedTimeRef = 0
  /\ nextMarkerId = 1

Init ==
  /\ InitDroneManager
  /\ InitTimeline
  /\ InitPanel
  /\ InitFrames
  /\ now = 0
  /\ lastOp = NoOp
  /\ call = NoCall

----------------------------------------------------------------------------
(* useTimeline: derived values and effects *)

LastTime(frames) == IF Len(frames) > 0 THEN frames[Len(frames)].time ELSE 0

\* timelineState.droneOffsets[id] || 0
OffsetOf(offs, id) == IF id \in DOMAIN offs THEN offs[id] ELSE 0

RECURSIVE SumDurations(_)
SumDurations(ds) ==
  IF ds = <<>> THEN 0 ELSE LastTime(Head(ds).frames) + SumDurations(Tail(ds))

calculateTotalTimeOffsetsInSum(ds, mode, offs) ==
  IF Len(ds) = 0 THEN 0
  ELSE IF mode = "simultaneous"
       THEN LET ends == {OffsetOf(offs, ds[i].id) + LastTime(ds[i].frames) : i \in DOMAIN ds}
            IN  CHOOSE m \in ends : \A e \in ends : e <= m
       ELSE SumDurations(ds) + OffsetOf(offs, ds[1].id)

calculateTotalTime(ds, mode, offs) ==
  IF Len(ds) = 0 THEN 0
  ELSE IF mode = "simultaneous"
       THEN LET ends == {OffsetOf(offs, ds[i].id) + LastTime(ds[i].frames) : i \in DOMAIN ds}
            IN  CHOOSE m \in ends : \A e \in ends : e <= m
       ELSE SumDurations(ds)

\* the effect on [drones]: every drone has an offset entry, no one else has
ReconcileOffsets(ds, offs) ==
  [id \in {ds[i].id : i \in DOMAIN ds} |-> IF id \in DOMAIN offs THEN offs[id] ELSE 0]

\* the effect on [calculateTotalTime], run to completion after a handler has
\* left the drone list ds, the play mode and the offsets offs
UpdateTotalTime(ds, mode, offs, range) ==
  LET total == calculateTotalTime(ds, mode, offs)
  IN  /\ totalTime' = total
      /\ playbackRange' = [range EXCEPT !.end = total]

\* both effects after a change of the drone list
DronesChanged(ds) ==
  LET offs == ReconcileOffsets(ds, droneOffsets)
  IN  /\ droneOffsets' = offs
      /\ UpdateTotalTime(ds, playMode, offs, playbackRange)

\* lastOp after handler op ran with argument arg
Ran(op, arg) ==
  lastOp' = [op |-> op, arg |-> arg,
             n |-> IF lastOp.op = op /\ lastOp.arg = arg THEN 2 ELSE 1]

----------------------------------------------------------------------------
(* TimelinePanel: the time axis.  Pixels are rationals; a time handed to   *)
(* or returned by these operators is a rational number of tenths of a      *)
(* second.                                                                 *)

\* const timelineWidth = Math.max(800, viewportWidth - 350), for a window
\* width pixels wide
EffectiveWidthOf(width) == Max(800, width - 350)
effectiveWidth == EffectiveWidthOf(viewportWidth)

\* Math.max(timelineState.totalTime, 60), 60 seconds being 600 tenths
BaseTimeRangeOf(total) == Max(total, 600)
baseTimeRange == BaseTimeRangeOf(totalTime)

\* timeToPixels' pixelPosition for the given state of the hook and window
PixelPosition(time, total, zoom, width) ==
  RMul(RMul(RDiv(time, RInt(BaseTimeRangeOf(total))), RInt(EffectiveWidthOf(width))), zoom)

timeToPixels(time) ==
  RSub(PixelPosition(time, totalTime, zoomLevel, viewportWidth), viewportOffset)

pixelsToTimeIgnoringOffset(pixels) ==
  RMul(RDiv(pixels, RMul(RInt(effectiveWidth), zoomLevel)), RInt(baseTimeRange))

pixelsToTime(pixels) ==
  LET adjustedPixels == RAdd(pixels, viewportOffset)
  IN  RMul(RDiv(adjustedPixels, RMul(RInt(effectiveWidth), zoomLevel)), RInt(baseTimeRange))

\* one run of the auto-pan effect: the viewportOffset it sets (the offset
\* it found when the playhead is inside the margins)
AutoPanEffect(time, total, zoom, width, offset) ==
  LET w                == RInt(EffectiveWidthOf(width))
      currentTimePixel == RSub(PixelPosition(RInt(time), total, zoom, width), offset)
      margin           == RMul(w, Rat(1, 10))
  IN  IF RLt(currentTimePixel, margin)
      THEN RMax(RInt(0), RSub(offset, RSub(margin, currentTimePixel)))
      ELSE IF RLt(RSub(w, margin), currentTimePixel)
           THEN LET maxOffset == RSub(RMul(w, zoom), w)
                IN  RMin(maxOffset, RAdd(offset, RSub(currentTimePixel, RSub(w, margin))))
           ELSE offset

\* the effect with its commonest case evaluated in whole numbers: at offset
\* 0 and with the playhead not right of effectiveWidth - margin, that is
\* time / base * zoom <= 9/10, the effect leaves the offset at 0 (its first
\* branch clamps to 0, its last keeps the offset)
AutoPan(time, total, zoom, width, offset) ==
  IF offset = RInt(0) /\ 10 * time * zoom.n <= 9 * BaseTimeRangeOf(total) * zoom.d
  THEN RInt(0)
  ELSE AutoPanEffect(time, total, zoom, width, offset)

\* the panel after a handler that does not touch the panel's own state:
\* the auto-pan effect runs on the new currentTime, totalTime and zoomLevel
PanelSettles ==
  /\ viewportOffset' = AutoPan(currentTime', totalTime', zoomLevel', viewportWidth,
                               viewportOffset)
  /\ UNCHANGED <<viewportWidth, draggingTrack, wheelCount>>

\* the animation effect after a handler, the frame queue being ticks and
\* named when the handler's own code is through: when one of the effect's
\* dependencies [isPlaying, playbackSpeed, totalTime, loopEnabled,
\* playbackRange] changed (replaced: playbackRange was set to a new object),
\* the cleanup of the last run cancels the frame the ref names, if that run
\* had requested one, and the new run requests a frame if isPlaying and
\* totalTime is not 0
AnimationEffectNoCleanup(ticks, named, replaced) ==
  LET isActive == isPlaying' /\ totalTime' # 0
      rerun    == \/ replaced
                  \/ <<isPlaying', playbackSpeed', totalTime', loopEnabled', playbackRange'>>
                       # <<isPlaying, playbackSpeed, totalTime, loopEnabled, playbackRange>>
  IN  /\ pendingTicks' = IF rerun THEN ticks + (IF isActive THEN 1 ELSE 0) ELSE ticks
      /\ refPending' = IF rerun THEN (isActive \/ named) ELSE named
      /\ mounted' = mounted

AnimationEffect(ticks, named, replaced) ==
  LET wasActive == isPlaying /\ totalTime # 0
      isActive  == isPlaying' /\ totalTime' # 0
      rerun     == \/ replaced
                   \/ <<isPlaying', playbackSpeed', totalTime', loopEnabled', playbackRange'>>
                        # <<isPlaying, playbackSpeed, totalTime, loopEnabled, playbackRange>>
      cancelled == wasActive /\ named
      left      == IF cancelled THEN ticks - 1 ELSE ticks
  IN  /\ pendingTicks' = IF rerun THEN left + (IF isActive THEN 1 ELSE 0) ELSE ticks
      /\ refPending' = IF rerun THEN (isActive \/ (named /\ ~wasActive)) ELSE named
      /\ mounted' = mounted

\* the frame queue after a handler that requests and cancels no frame itself
FramesSettle(replaced) == AnimationEffect(pendingTicks, refPending, replaced)

----------------------------------------------------------------------------
(* useTimeline: the playback clock *)

play ==
  /\ startTimeRef' = now
  /\ isPlaying' = TRUE
  /\ Ran("play", 0)
  /\ UNCHANGED <<dmVars, tlVars, now, call, currentTime, playbackSpeed, loopEnabled,
                 playbackRange, pausedTimeRef>>
  /\ PanelSettles
  /\ FramesSettle(FALSE)

pause ==
  /\ pausedTimeRef' = currentTime
  /\ isPlaying' = FALSE
  /\ Ran("pause", 0)
  /\ UNCHANGED <<dmVars, tlVars, now, call, currentTime, playbackSpeed, loopEnabled,
                 playbackRange, startTimeRef>>
  /\ PanelSettles
  /\ FramesSettle(FALSE)

stopKeepingPausedTime ==
  LET startTime == IF playbackRange.enabled THEN playbackRange.start ELSE 0
  IN  /\ pausedTimeRef' = pausedTimeRef
      /\ isPlaying' = FALSE
      /\ currentTime' = startTime
      /\ Ran("stop", 0)
      /\ UNCHANGED <<dmVars, tlVars, now, call, playbackSpeed, loopEnabled,
                     playbackRange, startTimeRef>>
      /\ PanelSettles
      /\ FramesSettle(FALSE)

stop ==
  LET startTime == IF playbackRange.enabled THEN playbackRange.start ELSE 0
  IN  /\ pausedTimeRef' = startTime
      /\ isPlaying' = FALSE
      /\ currentTime' = startTime
      /\ Ran("stop", 0)
      /\ UNCHANGED <<dmVars, tlVars, now, call, playbackSpeed, loopEnabled,
                     playbackRange, startTimeRef>>
      /\ PanelSettles
      /\ FramesSettle(FALSE)

seekToStaleBase(time) ==
  LET clampedTime == Max(0, Min(time, totalTime))
  IN  /\ pausedTimeRef' = currentTime
      /\ startTimeRef' = IF isPlaying THEN now ELSE startTimeRef
      /\ currentTime' = clampedTime
      /\ Ran("seekTo", time)
      /\ UNCHANGED <<dmVars, tlVars, now, call, isPlaying, playbackSpeed, loopEnabled,
                     playbackRange>>
      /\ PanelSettles
      /\ FramesSettle(FALSE)

seekToNoRebase(time) ==
  LET clampedTime == Max(0, Min(time, totalTime))
  IN  /\ pausedTimeRef' = clampedTime
      /\ startTimeRef' = startTimeRef
      /\ currentTime' = clampedTime
      /\ Ran("seekTo", time)
      /\ UNCHANGED <<dmVars, tlVars, now, call, isPlaying, playbackSpeed, loopEnabled,
                     playbackRange>>
      /\ PanelSettles
      /\ FramesSettle(FALSE)

seekTo(time) ==
  LET clampedTime == Max(0, Min(time, totalTime))
  IN  /\ pausedTimeRef' = clampedTime
      /\ startTimeRef' = IF isPlaying THEN now ELSE startTimeRef
      /\ currentTime' = clampedTime
      /\ Ran("seekTo", time)
      /\ UNCHANGED <<dmVars, tlVars, now, call, isPlaying, playbackSpeed, loopEnabled,
                     playbackRange>>
      /\ PanelSettles
      /\ FramesSettle(FALSE)

setPlaybackSpeedNoUpperBound(speed) ==
  LET clampedSpeed == Max(MinSpeed, speed)
  IN  /\ playbackSpeed' = clampedSpeed
      /\ Ran("setPlaybackSpeed", speed)
      /\ UNCHANGED <<dmVars, tlVars, now, call, currentTime, isPlaying, loopEnabled,
                     playbackRange, startTimeRef, pausedTimeRef>>
      /\ PanelSettles
      /\ FramesSettle(FALSE)

setPlaybackSpeed(speed) ==
  LET clampedSpeed == Max(MinSpeed, Min(MaxSpeed, speed))
  IN  /\ playbackSpeed' = clampedSpeed
      /\ Ran("setPlaybackSpeed", speed)
      /\ UNCHANGED <<dmVars, tlVars, now, call, currentTime, isPlaying, loopEnabled,
                     playbackRange, startTimeRef, pausedTimeRef>>
      /\ PanelSettles
      /\ FramesSettle(FALSE)

toggleLoop ==
  /\ loopEnabled' = ~loopEnabled
  /\ Ran("toggleLoop", 0)
  /\ UNCHANGED <<dmVars, tlVars, now, call, currentTime, isPlaying, playbackSpeed,
                 playbackRange, startTimeRef, pausedTimeRef>>
  /\ PanelSettles
  /\ FramesSettle(FALSE)

updatePlaybackRange(range) ==
  /\ playbackRange' = range
  /\ Ran("updatePlaybackRange", 0)
  /\ UNCHANGED <<dmVars, tlVars, now, call, currentTime, isPlaying, playbackSpeed,
                 loopEnabled, startTimeRef, pausedTimeRef>>
  /\ PanelSettles
  /\ FramesSettle(TRUE)

\* animate's effectiveEndTime
effectiveEndTimeIgnoringRange == totalTime
effectiveEndTime == IF playbackRange.enabled THEN playbackRange.end ELSE totalTime

\* animate's startTime, the time a loop wraps to
loopStartTimeIgnoringEnabled == playbackRange.start
loopStartTime == IF playbackRange.enabled THEN playbackRange.start ELSE 0

\* animate with a loop wrap that does not re-base the clock reference
animateWrapKeepsReference ==
  /\ pendingTicks > 0
  /\ LET elapsed   == (now - startTimeRef) * playbackSpeed
         newTime   == pausedTimeRef + elapsed
         startTime == loopStartTime
     IN  IF newTime > effectiveEndTime
         THEN IF loopEnabled
              THEN /\ currentTime' = startTime
                   /\ pausedTimeRef' = startTime
                   /\ UNCHANGED <<startTimeRef, isPlaying>>
                   /\ Ran("animate", "wrap")
              ELSE /\ currentTime' = effectiveEndTime
                   /\ isPlaying' = FALSE
                   /\ UNCHANGED <<startTimeRef, pausedTimeRef>>
                   /\ Ran("animate", "end")
         ELSE /\ currentTime' = newTime
              /\ UNCHANGED <<startTimeRef, pausedTimeRef, isPlaying>>
              /\ Ran("animate", "advance")
  /\ UNCHANGED <<dmVars, tlVars, now, call, playbackSpeed, loopEnabled, playbackRange>>
  /\ PanelSettles
  /\ AnimationEffect((pendingTicks - 1) + 1, TRUE, FALSE)

\* animate adding the elapsed time to currentTime instead of the base
animateFromCurrentTime ==
  /\ pendingTicks > 0
  /\ LET elapsed   == (now - startTimeRef) * playbackSpeed
         newTime   == currentTime + elapsed
         startTime == loopStartTime
     IN  IF newTime > effectiveEndTime
         THEN IF loopEnabled
              THEN /\ currentTime' = startTime
                   /\ startTimeRef' = now
                   /\ pausedTimeRef' = startTime
                   /\ isPlaying' = isPlaying
                   /\ Ran("animate", "wrap")
              ELSE /\ currentTime' = effectiveEndTime
                   /\ isPlaying' = FALSE
                   /\ UNCHANGED <<startTimeRef, pausedTimeRef>>
                   /\ Ran("animate", "end")
         ELSE /\ currentTime' = newTime
              /\ UNCHANGED <<startTimeRef, pausedTimeRef, isPlaying>>
              /\ Ran("animate", "advance")
  /\ UNCHANGED <<dmVars, tlVars, now, call, playbackSpeed, loopEnabled, playbackRange>>
  /\ PanelSettles
  /\ AnimationEffect((pendingTicks - 1) + 1, TRUE, FALSE)

\* animate that clamps to the end without pausing there
animateKeepsPlayingAtEnd ==
  /\ pendingTicks > 0
  /\ LET elapsed   == (now - startTimeRef) * playbackSpeed
         newTime   == pausedTimeRef + elapsed
         startTime == loopStartTime
     IN  IF newTime > effectiveEndTime
         THEN IF loopEnabled
              THEN /\ currentTime' = startTime
                   /\ startTimeRef' = now
                   /\ pausedTimeRef' = startTime
                   /\ isPlaying' = isPlaying
                   /\ Ran("animate", "wrap")
              ELSE /\ currentTime' = effectiveEndTime
                   /\ UNCHANGED <<startTimeRef, pausedTimeRef, isPlaying>>
                   /\ Ran("animate", "end")
         ELSE /\ currentTime' = newTime
              /\ UNCHANGED <<startTimeRef, pausedTimeRef, isPlaying>>
              /\ Ran("animate", "advance")
  /\ UNCHANGED <<dmVars, tlVars, now, call, playbackSpeed, loopEnabled, playbackRange>>
  /\ PanelSettles
  /\ AnimationEffect((pendingTicks - 1) + 1, TRUE, FALSE)

\* one run of a pending requestAnimationFrame callback.  The callback is
\* the one of the effect's last run, so the state its closure holds is the
\* current one; taken off the queue, it requests the next frame (its
\* closure's isPlaying is true) and the animation effect follows
animate ==
  /\ pendingTicks > 0
  /\ LET elapsed   == (now - startTimeRef) * playbackSpeed
         newTime   == pausedTimeRef + elapsed
         startTime == loopStartTime
     IN  IF newTime > effectiveEndTime
         THEN IF loopEnabled
              THEN /\ currentTime' = startTime
                   /\ startTimeRef' = now
                   /\ pausedTimeRef' = startTime
                   /\ isPlaying' = isPlaying
                   /\ Ran("animate", "wrap")
              ELSE /\ currentTime' = effectiveEndTime
                   /\ isPlaying' = FALSE
                   /\ UNCHANGED <<startTimeRef, pausedTimeRef>>
                   /\ Ran("animate", "end")
         ELSE /\ currentTime' = newTime
              /\ UNCHANGED <<startTimeRef, pausedTimeRef, isPlaying>>
              /\ Ran("animate", "advance")
  /\ UNCHANGED <<dmVars, tlVars, now, call, playbackSpeed, loopEnabled, playbackRange>>
  /\ PanelSettles
  /\ AnimationEffect((pendingTicks - 1) + 1, TRUE, FALSE)

\* the component holding the hook is unmounted: the animation effect's
\* cleanup runs if its last run had requested a frame
unmount ==
  /\ mounted
  /\ mounted' = FALSE
  /\ LET wasActive == isPlaying /\ totalTime # 0
     IN  /\ pendingTicks' = IF wasActive /\ refPending THEN pendingTicks - 1 ELSE pendingTicks
         /\ refPending' = IF wasActive THEN FALSE ELSE refPending
  /\ Ran("unmount", 0)
  /\ UNCHANGED <<dmVars, clockVars, tlVars, panelVars, now, call>>

\* the wall clock: performance.now() grows
Advance ==
  /\ now < MaxNow
  /\ now' = now + 1
  /\ UNCHANGED <<dmVars, clockVars, tlVars, panelVars, frameVars, lastOp, call>>

\* the wall clock during a run that is left to play out: performance.now()
\* grows; once the next tick's time is past the effective end a later
\* reading changes nothing, so the clock is followed no further
AdvanceToEnd ==
  /\ isPlaying
  /\ pausedTimeRef + (now - startTimeRef) * playbackSpeed <= effectiveEndTime
  /\ now' = now + 1
  /\ UNCHANGED <<dmVars, clockVars, tlVars, panelVars, frameVars, lastOp, call>>

----------------------------------------------------------------------------
(* useTimeline: zoom, play mode, markers, selection, offsets *)

setZoomLevel(zoom) ==
  LET clampedZoom == RMax(Rat(MinZoom, 10), RMin(Rat(MaxZoom, 10), zoom))
  IN  /\ zoomLevel' = clampedZoom
      /\ Ran("setZoomLevel", zoom)
      /\ UNCHANGED <<dmVars, clockVars, now, call, totalTime, selectedDrones, playMode,
                     markers, droneOffsets, nextMarkerId>>
      /\ PanelSettles
      /\ FramesSettle(FALSE)

togglePlayMode ==
  /\ playMode' = IF playMode = "simultaneous" THEN "synchronous" ELSE "simultaneous"
  /\ UpdateTotalTime(drones, playMode', droneOffsets, playbackRange)
  /\ Ran("togglePlayMode", 0)
  /\ UNCHANGED <<dmVars, now, call, currentTime, isPlaying, playbackSpeed, loopEnabled,
                 startTimeRef, pausedTimeRef, zoomLevel, selectedDrones, markers,
                 droneOffsets, nextMarkerId>>
  /\ PanelSettles
  /\ FramesSettle(TRUE)

MarkerColor(type) ==
  IF type = "event" THEN "#ff5050" ELSE IF type = "sync" THEN "#50ff50" ELSE "#4cafef"

addMarkerUnsorted(time, label, type) ==
  /\ nextMarkerId <= MaxMarkers
  /\ LET marker == [id |-> nextMarkerId, time |-> time, label |-> label,
                    color |-> MarkerColor(type), type |-> type]
     IN  markers' = Append(markers, marker)
  /\ nextMarkerId' = nextMarkerId + 1
  /\ Ran("addMarker", time)
  /\ UNCHANGED <<dmVars, clockVars, now, call, totalTime, zoomLevel, selectedDrones,
                 playMode, droneOffsets>>
  /\ PanelSettles
  /\ FramesSettle(FALSE)

addMarker(time, label, type) ==
  /\ nextMarkerId <= MaxMarkers
  /\ LET marker == [id |-> nextMarkerId, time |-> time, label |-> label,
                    color |-> MarkerColor(type), type |-> type]
     IN  markers' = SortByTime(Append(markers, marker))
  /\ nextMarkerId' = nextMarkerId + 1
  /\ Ran("addMarker", time)
  /\ UNCHANGED <<dmVars, clockVars, now, call, totalTime, zoomLevel, selectedDrones,
                 playMode, droneOffsets>>
  /\ PanelSettles
  /\ FramesSettle(FALSE)

removeMarker(markerId) ==
  /\ markers' = SelectSeq(markers, LAMBDA marker : marker.id # markerId)
  /\ Ran("removeMarker", markerId)
  /\ UNCHANGED <<dmVars, clockVars, now, call, totalTime, zoomLevel, selectedDrones,
                 playMode, droneOffsets, nextMarkerId>>
  /\ PanelSettles
  /\ FramesSettle(FALSE)

toggleDroneSelection(droneId) ==
  /\ selectedDrones' = IF droneId \in Range(selectedDrones)
                       THEN SelectSeq(selectedDrones, LAMBDA id : id # droneId)
                       ELSE Append(selectedDrones, droneId)
  /\ Ran("toggleDroneSelection", droneId)
  /\ UNCHANGED <<dmVars, clockVars, now, call, totalTime, zoomLevel, playMode, markers,
                 droneOffsets, nextMarkerId>>
  /\ PanelSettles
  /\ FramesSettle(FALSE)

setDroneOffsetUnclamped(droneId, offsetSeconds) ==
  LET clamped == offsetSeconds
      offs    == [id \in DOMAIN droneOffsets \cup {droneId} |->
                    IF id = droneId THEN clamped ELSE droneOffsets[id]]
  IN  /\ droneOffsets' = offs
      /\ UpdateTotalTime(drones, playMode, offs, playbackRange)
      /\ Ran("setDroneOffset", offsetSeconds)
      /\ UNCHANGED <<dmVars, now, call, currentTime, isPlaying, playbackSpeed, loopEnabled,
                     startTimeRef, pausedTimeRef, zoomLevel, selectedDrones, playMode,
                     markers, nextMarkerId>>
      /\ PanelSettles
      /\ FramesSettle(TRUE)

setDroneOffset(droneId, offsetSeconds) ==
  LET clamped == Max(0, offsetSeconds)
      offs    == [id \in DOMAIN droneOffsets \cup {droneId} |->
                    IF id = droneId THEN clamped ELSE droneOffsets[id]]
  IN  /\ droneOffsets' = offs
      /\ UpdateTotalTime(drones, playMode, offs, playbackRange)
      /\ Ran("setDroneOffset", offsetSeconds)
      /\ UNCHANGED <<dmVars, now, call, currentTime, isPlaying, playbackSpeed, loopEnabled,
                     startTimeRef, pausedTimeRef, zoomLevel, selectedDrones, playMode,
                     markers, nextMarkerId>>
      /\ PanelSettles
      /\ FramesSettle(TRUE)

----------------------------------------------------------------------------
(* TimelinePanel: ruler intervals, panning, wheel zoom, track dragging *)

\* niceIntervals, in tenths of a second
niceIntervals ==
  <<Rat(1, 10), Rat(2, 10), Rat(5, 10), RInt(1), RInt(2), RInt(5),
    RInt(10), RInt(20), RInt(50), RInt(100), RInt(150), RInt(300),
    RInt(600), RInt(1200), RInt(3000), RInt(6000), RInt(9000), RInt(18000),
    RInt(36000), RInt(72000), RInt(108000), RInt(216000), RInt(432000), RInt(864000)>>

\* niceIntervals.find(interval => interval >= minTimeStep) || the last one
FindInterval(minTimeStep) ==
  IF \E i \in DOMAIN niceIntervals : RLe(minTimeStep, niceIntervals[i])
  THEN niceIntervals[CHOOSE i \in DOMAIN niceIntervals :
                       /\ RLe(minTimeStep, niceIntervals[i])
                       /\ \A j \in 1..(i - 1) : ~RLe(minTimeStep, niceIntervals[j])]
  ELSE niceIntervals[Len(niceIntervals)]

\* getTickIntervals with a minor step of timeStep / 5 on every tier
getTickIntervalsOneTier ==
  LET totalPixelWidth == RMul(RInt(effectiveWidth), zoomLevel)
      pixelsPerSecond == RDiv(totalPixelWidth, RInt(baseTimeRange))
      minTimeStep     == RDiv(RInt(80), pixelsPerSecond)
      timeStep        == FindInterval(minTimeStep)
  IN  [timeStep  |-> timeStep,
       minorStep |-> RDiv(timeStep, RInt(5)),
       startTime |-> RMul(RDiv(viewportOffset, totalPixelWidth), RInt(baseTimeRange)),
       endTime   |-> RMul(RDiv(RAdd(viewportOffset, RInt(effectiveWidth)), totalPixelWidth),
                          RInt(baseTimeRange))]

getTickIntervals ==
  LET totalPixelWidth == RMul(RInt(effectiveWidth), zoomLevel)
      pixelsPerSecond == RDiv(totalPixelWidth, RInt(baseTimeRange))   \* per tenth here
      minTimeStep     == RDiv(RInt(80), pixelsPerSecond)
      timeStep        == FindInterval(minTimeStep)
      minorStep       == IF RLe(RInt(600), timeStep) THEN RDiv(timeStep, RInt(10))
                         ELSE IF RLe(RInt(1), timeStep) THEN RDiv(timeStep, RInt(5))
                         ELSE RDiv(timeStep, RInt(2))
  IN  [timeStep  |-> timeStep,
       minorStep |-> minorStep,
       startTime |-> RMul(RDiv(viewportOffset, totalPixelWidth), RInt(baseTimeRange)),
       endTime   |-> RMul(RDiv(RAdd(viewportOffset, RInt(effectiveWidth)), totalPixelWidth),
                          RInt(baseTimeRange))]

\* handleMouseMove with the shift key held while dragging: deltaX is
\* e.clientX - dragStartX.  onMove returns before it while a track is dragged
handleMouseMove(deltaX) ==
  /\ draggingTrack = NoDrag
  /\ LET w         == RInt(effectiveWidth)
         maxOffset == RSub(RMul(w, zoomLevel), w)
         newOffset == RMax(RInt(0), RMin(maxOffset, RSub(viewportOffset, RInt(deltaX))))
     IN  viewportOffset' = AutoPan(currentTime, totalTime, zoomLevel, viewportWidth, newOffset)
  /\ Ran("handleMouseMove", deltaX)
  /\ UNCHANGED <<dmVars, clockVars, tlVars, frameVars, now, call, viewportWidth, draggingTrack,
                 wheelCount>>

\* the window's resize listener: width is window.innerWidth
handleResize(width) ==
  /\ viewportWidth' = width
  /\ viewportOffset' = AutoPan(currentTime, totalTime, zoomLevel, width, viewportOffset)
  /\ Ran("handleResize", width)
  /\ UNCHANGED <<dmVars, clockVars, tlVars, frameVars, now, call, draggingTrack, wheelCount>>

\* handleWheel: x is e.clientX - rect.left, zoomIn is e.deltaY < 0
handleWheel(x, zoomIn) ==
  /\ wheelCount < MaxWheels
  /\ LET w               == RInt(effectiveWidth)
         mouseX          == RInt(Max(0, Min(x, effectiveWidth)))
         base            == RInt(baseTimeRange)
         focalTime       == RMul(RDiv(RAdd(mouseX, viewportOffset), RMul(w, zoomLevel)), base)
         zoomFactor      == Rat(11, 10)
         currentZoom     == zoomLevel
         newZoom         == IF zoomIn
                            THEN RMin(RMul(currentZoom, zoomFactor), Rat(WheelMaxZoom, 10))
                            ELSE RMax(RDiv(currentZoom, zoomFactor), Rat(WheelMinZoom, 10))
         \* onSetZoomLevel(newZoom)
         clampedZoom     == RMax(Rat(MinZoom, 10), RMin(Rat(MaxZoom, 10), newZoom))
         totalPixelWidth == RMul(w, newZoom)
         unclamped       == RSub(RMul(RDiv(focalTime, base), totalPixelWidth), mouseX)
         maxOffset       == RMax(RInt(0), RSub(totalPixelWidth, w))
         newOffset       == RMax(RInt(0), RMin(maxOffset, unclamped))
     IN  /\ zoomLevel' = clampedZoom
         /\ viewportOffset' = AutoPan(currentTime, totalTime, clampedZoom, viewportWidth,
                                      newOffset)
  /\ wheelCount' = wheelCount + 1
  /\ Ran("handleWheel", [x |-> x, zoomIn |-> zoomIn])
  /\ UNCHANGED <<dmVars, clockVars, frameVars, now, call, totalTime, selectedDrones,
                 playMode, markers, droneOffsets, nextMarkerId, viewportWidth,
                 draggingTrack>>

\* onMouseDown of a rendered track: tracks are rendered for the drones that
\* are in the timeline and not hidden there
trackMouseDown(droneId) ==
  /\ \E i \in DOMAIN drones :
       drones[i].id = droneId /\ drones[i].inTimeline /\ ~drones[i].timelineHidden
  /\ draggingTrack' =
       [none |-> FALSE, droneId |-> droneId,
        startOffset |-> OffsetOf(droneOffsets, droneId),
        secondsPerPixel |-> RDiv(RInt(baseTimeRange), RMul(RInt(effectiveWidth), zoomLevel))]
  /\ Ran("trackMouseDown", droneId)
  /\ UNCHANGED <<dmVars, clockVars, tlVars, frameVars, now, call, viewportWidth, viewportOffset,
                 wheelCount>>

\* onMove while a track is dragged: deltaPixels is e.clientX - startX.  Offsets
\* are whole tenths in the model: a move whose snapped offset is not one is
\* left out
trackMouseMove(deltaPixels) ==
  /\ draggingTrack # NoDrag
  /\ LET minorStep    == getTickIntervals.minorStep
         rawDeltaTime == RMul(RInt(deltaPixels), draggingTrack.secondsPerPixel)
         snappedDelta == RMul(RInt(RRound(RDiv(rawDeltaTime, minorStep))), minorStep)
         newOffset    == RMax(RInt(0), RAdd(RInt(draggingTrack.startOffset), snappedDelta))
     IN  /\ newOffset.d = 1
         /\ setDroneOffset(draggingTrack.droneId, newOffset.n)

handleMouseUp ==
  /\ draggingTrack' = NoDrag
  /\ Ran("handleMouseUp", 0)
  /\ UNCHANGED <<dmVars, clockVars, tlVars, frameVars, now, call, viewportWidth, viewportOffset,
                 wheelCount>>

----------------------------------------------------------------------------
(* useDroneManager *)

DroneInstance(id, file, frames) ==
  [id |-> id, file |-> file, frames |-> frames, visible |-> TRUE,
   inTimeline |-> FALSE, timelineHidden |-> FALSE]

\* the CSV files a user picks in the model
StdFile(times) == FileSource(<<HeaderOf(AllStd)>> \o [i \in DOMAIN times |-> Row(times[i])])
FlightA      == StdFile(<<0, 25, 50>>)       \* a flight spanning [0 s, 5 s]
FlightB      == StdFile(<<0, 30>>)           \* a flight spanning [0 s, 3 s]
FlightTen    == StdFile(<<0, 50, 100>>)      \* a flight spanning [0 s, 10 s]
EmptyFile    == FileSource(<<>>)
NoYawFile    == FileSource(<<HeaderOf([AllStd EXCEPT !["yaw"] = "none"]), Row(0)>>)
PickedFiles  == {FlightA, FlightB, EmptyFile, NoYawFile}

\* addDrone up to its await: the load is in flight
addDroneStart(file) ==
  /\ nextDroneId <= MaxLoads
  /\ pending' = pending \cup {[id |-> nextDroneId, file |-> file]}
  /\ nextDroneId' = nextDroneId + 1
  /\ isLoading' = TRUE
  /\ error' = ""
  /\ Ran("addDrone", 0)
  /\ UNCHANGED <<drones, activeDroneId, clockVars, tlVars, now, call>>
  /\ PanelSettles
  /\ FramesSettle(FALSE)

\* addDrone after its await, loadCsvData having returned the frames
addDroneLoaded(p) ==
  /\ p \in pending
  /\ loadCsvData(p.file).ok
  /\ pending' = pending \ {p}
  /\ drones' = Append(drones, DroneInstance(p.id, p.file, loadCsvData(p.file).frames))
  /\ activeDroneId' = IF activeDroneId # 0 THEN activeDroneId ELSE p.id
  /\ isLoading' = FALSE
  /\ DronesChanged(drones')
  /\ Ran("addDroneLoaded", p.id)
  /\ UNCHANGED <<error, nextDroneId, now, call, currentTime, isPlaying, playbackSpeed,
                 loopEnabled, startTimeRef, pausedTimeRef, zoomLevel, selectedDrones,
                 playMode, markers, nextMarkerId>>
  /\ PanelSettles
  /\ FramesSettle(TRUE)

addDroneFailedStillLoading(p) ==
  /\ p \in pending
  /\ ~loadCsvData(p.file).ok
  /\ pending' = pending \ {p}
  /\ error' = loadCsvData(p.file).error
  /\ Ran("addDroneFailed", p.id)
  /\ UNCHANGED <<drones, activeDroneId, isLoading, nextDroneId, clockVars, tlVars, now, call>>
  /\ PanelSettles
  /\ FramesSettle(FALSE)

\* addDrone's catch block, loadCsvData having thrown
addDroneFailed(p) ==
  /\ p \in pending
  /\ ~loadCsvData(p.file).ok
  /\ pending' = pending \ {p}
  /\ isLoading' = FALSE
  /\ error' = loadCsvData(p.file).error
  /\ Ran("addDroneFailed", p.id)
  /\ UNCHANGED <<drones, activeDroneId, nextDroneId, clockVars, tlVars, now, call>>
  /\ PanelSettles
  /\ FramesSettle(FALSE)

removeDrone(droneId) ==
  LET newDrones == SelectSeq(drones, LAMBDA drone : drone.id # droneId)
  IN  /\ drones' = newDrones
      /\ activeDroneId' = IF activeDroneId = droneId
                          THEN (IF Len(newDrones) > 0 THEN newDrones[1].id ELSE 0)
                          ELSE activeDroneId
      /\ DronesChanged(newDrones)
      /\ Ran("removeDrone", droneId)
      /\ UNCHANGED <<isLoading, error, pending, nextDroneId, now, call, currentTime,
                     isPlaying, playbackSpeed, loopEnabled, startTimeRef, pausedTimeRef,
                     zoomLevel, selectedDrones, playMode, markers, nextMarkerId>>
      /\ PanelSettles
      /\ FramesSettle(TRUE)

addToTimeline(droneId) ==
  /\ drones' = [i \in DOMAIN drones |->
                 IF drones[i].id = droneId
                 THEN [drones[i] EXCEPT !.inTimeline = TRUE]
                 ELSE drones[i]]
  /\ DronesChanged(drones')
  /\ Ran("addToTimeline", droneId)
  /\ UNCHANGED <<activeDroneId, isLoading, error, pending, nextDroneId, now, call,
                 currentTime, isPlaying, playbackSpeed, loopEnabled, startTimeRef,
                 pausedTimeRef, zoomLevel, selectedDrones, playMode, markers,
                 nextMarkerId>>
  /\ PanelSettles
  /\ FramesSettle(TRUE)

removeFromTimeline(droneId) ==
  /\ drones' = [i \in DOMAIN drones |->
                 IF drones[i].id = droneId
                 THEN [drones[i] EXCEPT !.inTimeline = FALSE]
                 ELSE drones[i]]
  /\ DronesChanged(drones')
  /\ Ran("removeFromTimeline", droneId)
  /\ UNCHANGED <<activeDroneId, isLoading, error, pending, nextDroneId, now, call,
                 currentTime, isPlaying, playbackSpeed, loopEnabled, startTimeRef,
                 pausedTimeRef, zoomLevel, selectedDrones, playMode, markers,
                 nextMarkerId>>
  /\ PanelSettles
  /\ FramesSettle(TRUE)

toggleTimelineHidden(droneId) ==
  /\ drones' = [i \in DOMAIN drones |->
                 IF drones[i].id = droneId
                 THEN [drones[i] EXCEPT !.timelineHidden = ~drones[i].timelineHidden]
                 ELSE drones[i]]
  /\ DronesChanged(drones')
  /\ Ran("toggleTimelineHidden", droneId)
  /\ UNCHANGED <<activeDroneId, isLoading, error, pending, nextDroneId, now, call,
                 currentTime, isPlaying, playbackSpeed, loopEnabled, startTimeRef,
                 pausedTimeRef, zoomLevel, selectedDrones, playMode, markers,
                 nextMarkerId>>
  /\ PanelSettles
  /\ FramesSettle(TRUE)

clearError ==
  /\ error' = ""
  /\ Ran("clearError", 0)
  /\ UNCHANGED <<drones, activeDroneId, isLoading, pending, nextDroneId, clockVars, tlVars,
                 now, call>>
  /\ PanelSettles
  /\ FramesSettle(FALSE)

----------------------------------------------------------------------------
(* App: what is handed to the renderer *)

NoPose == [none |-> TRUE]

PoseAtEndExclusive(drone, offs, t) ==
  LET offset        == OffsetOf(offs, drone.id)
      effectiveTime == t - offset
      lastTime      == LastTime(drone.frames)
      frameIndex    == findFrameIndexAtTime(drone.frames, effectiveTime)
  IN  IF effectiveTime < 0 THEN NoPose
      ELSE IF effectiveTime >= lastTime THEN NoPose
      ELSE IF frameIndex + 1 \in DOMAIN drone.frames
           THEN drone.frames[frameIndex + 1]
           ELSE [undefined |-> TRUE]

\* the body of timelineDrones.map(drone => ...): the frame drawn for one
\* drone at clock time t, or NoPose where the source returns null
PoseAt(drone, offs, t) ==
  LET offset        == OffsetOf(offs, drone.id)
      effectiveTime == t - offset
      lastTime      == LastTime(drone.frames)
      frameIndex    == findFrameIndexAtTime(drone.frames, effectiveTime)
  IN  IF effectiveTime < 0 THEN NoPose
      ELSE IF effectiveTime > lastTime THEN NoPose
      ELSE IF frameIndex + 1 \in DOMAIN drone.frames
           THEN drone.frames[frameIndex + 1]
           ELSE [undefined |-> TRUE]

\* const timelineDrones = droneManager.drones.filter(d => d.inTimeline)
timelineDrones == SelectSeq(drones, LAMBDA d : d.inTimeline)

\* the <Drone> elements of one render: drone id -> frame or NoPose
RenderedPoses ==
  [id \in {timelineDrones[i].id : i \in DOMAIN timelineDrones} |->
     LET d == CHOOSE d \in Range(timelineDrones) : d.id = id
     IN  PoseAt(d, droneOffsets, currentTime)]

----------------------------------------------------------------------------
(* findFrameIndexAtTime applied to drawn inputs *)

\* the sample sequences drawn: sorted ascending by time, duplicates allowed;
\* x numbers the samples so that samples of equal time differ
SampleSeqs ==
  {[i \in DOMAIN ts |-> Frame(ts[i], i)] :
     ts \in {u \in SeqsUpTo(0..MaxT, MaxLen) : \A i, j \in DOMAIN u : i < j => u[i] <= u[j]}}

InitResolve ==
  /\ InitDroneManager
  /\ InitTimeline
  /\ InitPanel
  /\ InitFrames
  /\ now = 0
  /\ lastOp = NoOp
  /\ call \in {[fn |-> "findFrameIndexAtTime", arg |-> [frames |-> fr, targetTime |-> t],
                done |-> FALSE, ret |-> 0] : fr \in SampleSeqs, t \in (-1)..(MaxT + 1)}

ApplyFindFrameIndexAtTime ==
  /\ call.fn = "findFrameIndexAtTime"
  /\ ~call.done
  /\ call' = [call EXCEPT !.done = TRUE,
                          !.ret = findFrameIndexAtTime(call.arg.frames, call.arg.targetTime)]
  /\ UNCHANGED <<dmVars, clockVars, tlVars, panelVars, frameVars, now, lastOp>>

NextResolve == ApplyFindFrameIndexAtTime
SpecResolve == InitResolve /\ [][NextResolve]_vars

(* loadCsvData applied to drawn inputs *)

InitCsv ==
  /\ InitDroneManager
  /\ InitTimeline
  /\ InitPanel
  /\ InitFrames
  /\ now = 0
  /\ lastOp = NoOp
  /\ call \in {[fn |-> "loadCsvData", arg |-> src, done |-> FALSE, ret |-> Failure("")] :
                 src \in CsvSources}

ApplyLoadCsvData ==
  /\ call.fn = "loadCsvData"
  /\ ~call.done
  /\ call' = [call EXCEPT !.done = TRUE, !.ret = loadCsvData(call.arg)]
  /\ UNCHANGED <<dmVars, clockVars, tlVars, panelVars, frameVars, now, lastOp>>

NextCsv == ApplyLoadCsvData
SpecCsv == InitCsv /\ [][NextCsv]_vars

----------------------------------------------------------------------------
(* The session: loading and removing drones *)

Next ==
  \/ \E file \in PickedFiles : addDroneStart(file)
  \/ \E p \in pending : addDroneLoaded(p)
  \/ \E p \in pending : addDroneFailed(p)
  \/ \E id \in 1..MaxLoads : removeDrone(id)
  \/ clearError

Spec == Init /\ [][Next]_vars

(* The state the session is in once the files of the sequence files have   *)
(* been loaded one after the other (addDroneStart, addDroneLoaded for each *)
(* file in turn) and, when onTimeline, each drone was added to the         *)
(* timeline (addToTimeline), and nothing else was done.                    *)
LoadedDrones(files, onTimeline) ==
  [i \in DOMAIN files |->
     [DroneInstance(i, files[i], loadCsvData(files[i]).frames) EXCEPT !.inTimeline = onTimeline]]

InitLoaded(files, onTimeline) ==
  LET ds   == LoadedDrones(files, onTimeline)
      offs == ReconcileOffsets(ds, <<>>)
      total == calculateTotalTime(ds, "simultaneous", offs)
  IN  /\ drones = ds
      /\ activeDroneId = 1
      /\ isLoading = FALSE
      /\ error = ""
      /\ pending = {}
      /\ nextDroneId = Len(files) + 1
      /\ currentTime = 0
      /\ totalTime = total
      /\ isPlaying = FALSE
      /\ playbackSpeed = 10
      /\ zoomLevel = RInt(1)
      /\ selectedDrones = <<>>
      /\ playMode = "simultaneous"
      /\ loopEnabled = FALSE
      /\ markers = <<>>
      /\ droneOffsets = offs
      /\ playbackRange = [start |-> 0, end |-> total, enabled |-> FALSE]
      /\ startTimeRef = 0
      /\ pausedTimeRef = 0
      /\ nextMarkerId = 1
      /\ InitPanel
      /\ InitFrames
      /\ now = 0
      /\ call = NoCall

(* The playback clock over one loaded flight of 10 s *)
SeekTimes  == {-5, 0, 95, 130}
Speeds     == {0, 10, 25, 1000}
Ranges     == {[start |-> 20, end |-> 60, enabled |-> TRUE],
               [start |-> 20, end |-> 60, enabled |-> FALSE]}

InitClock == InitLoaded(<<FlightTen>>, TRUE) /\ lastOp = NoOp

NextClock ==
  \/ play
  \/ pause
  \/ stop
  \/ \E t \in SeekTimes : seekTo(t)
  \/ \E sp \in Speeds : setPlaybackSpeed(sp)
  \/ toggleLoop
  \/ \E r \in Ranges : updatePlaybackRange(r)
  \/ animate
  \/ Advance

SpecClock == InitClock /\ [][NextClock]_vars

(* The tracks of two loaded flights: inclusion, offsets, seeking *)
Offsets     == {-10, 0, 20}
TrackSeeks  == {-5, 0, 19, 20, 45, 50, 51}

InitTracks == InitLoaded(<<FlightA, FlightB>>, FALSE) /\ lastOp = NoOp

NextTracks ==
  \/ \E id \in 1..2 : addToTimeline(id)
  \/ \E id \in 1..2 : removeFromTimeline(id)
  \/ \E id \in 1..2 : toggleTimelineHidden(id)
  \/ \E id \in 1..2, o \in Offsets : setDroneOffset(id, o)
  \/ \E id \in 1..2 : toggleDroneSelection(id)
  \/ \E t \in TrackSeeks : seekTo(t)
  \/ togglePlayMode

SpecTracks == InitTracks /\ [][NextTracks]_vars

(* Markers and zoom *)
MarkerTimes == {10, 23}
MarkerTypes == {"bookmark", "sync"}
Zooms       == {0, 10, 150, 200, 250}

NextMarks ==
  \/ \E t \in MarkerTimes, ty \in MarkerTypes : addMarker(t, "sync1", ty)
  \/ \E id \in 1..MaxMarkers : removeMarker(id)
  \/ \E z \in Zooms : setZoomLevel(Rat(z, 10))

SpecMarks == Init /\ [][NextMarks]_vars

(* Offsets of the tracks of a session: loads, removals, offsets set and    *)
(* tracks dragged                                                          *)
DroneIds    == {drones[i].id : i \in DOMAIN drones}
OffsetArgs  == {-10, 20}
DragDeltas  == {-300, 300}

NextOffsets ==
  \/ Len(drones) + Cardinality(pending) < MaxTracks /\ addDroneStart(FlightB)
  \/ \E p \in pending : addDroneLoaded(p)
  \/ \E id \in DroneIds : removeDrone(id)
  \/ \E id \in DroneIds : addToTimeline(id)
  \/ \E id \in DroneIds, o \in OffsetArgs : setDroneOffset(id, o)
  \/ \E id \in DroneIds : trackMouseDown(id)
  \/ \E deltaPixels \in DragDeltas :
       trackMouseMove(deltaPixels) /\ \A id \in DOMAIN droneOffsets' : droneOffsets'[id] <= MaxDragged
  \/ handleMouseUp

SpecOffsets == Init /\ [][NextOffsets]_vars

(* Removing drones that have offsets and are selected *)
InitRemoval == InitLoaded(<<FlightA, FlightB>>, TRUE) /\ lastOp = NoOp

NextRemoval ==
  \/ \E id \in DroneIds : removeDrone(id)
  \/ \E id \in DroneIds : toggleDroneSelection(id)
  \/ \E id \in DroneIds, o \in OffsetArgs : setDroneOffset(id, o)

SpecRemoval == InitRemoval /\ [][NextRemoval]_vars

(* The total duration over three loaded drones, one of them without samples *)
HeaderOnlyFile == StdFile(<<>>)

InitTotals == InitLoaded(<<FlightA, FlightB, HeaderOnlyFile>>, FALSE) /\ lastOp = NoOp

NextTotals ==
  \/ \E id \in DroneIds : addToTimeline(id)
  \/ \E id \in DroneIds : removeFromTimeline(id)
  \/ \E id \in DroneIds : removeDrone(id)
  \/ \E id \in DroneIds, o \in OffsetArgs : setDroneOffset(id, o)
  \/ togglePlayMode

SpecTotals == InitTotals /\ [][NextTotals]_vars

(* The timeline panel over one flight of 100 seconds *)
FlightLong  == StdFile(<<0, 1000>>)
PanelSeeks  == {0, 50, 500, 1000}
PanelZooms  == {10, 100}
WheelXs     == {0, 400, 800}
PanDeltas   == {-400, 400}
Widths      == {1150, 1950}

InitPanelSpec == InitLoaded(<<FlightLong>>, TRUE) /\ lastOp = NoOp

NextPanel ==
  \/ \E t \in PanelSeeks : seekTo(t)
  \/ \E z \in PanelZooms : setZoomLevel(Rat(z, 10))
  \/ \E x \in WheelXs, zoomIn \in BOOLEAN : handleWheel(x, zoomIn)
  \/ \E deltaX \in PanDeltas : handleMouseMove(deltaX)
  \/ \E width \in Widths : handleResize(width)

SpecPanel == InitPanelSpec /\ [][NextPanel]_vars

(* Tick intervals of the ruler: a 10 s flight and a flight of 25 hours,    *)
(* zoomed, in windows 1150 and 9950 pixels wide, with track dragging      *)
FlightDay   == StdFile(<<0, 900000>>)
TickZooms   == {1, 10, 100}
TickWidths  == {1150, 9950}
TickDeltas  == {-400, 400}

InitTicks ==
  /\ \E file \in {FlightTen, FlightDay} : InitLoaded(<<file>>, TRUE)
  /\ lastOp = NoOp

NextTicks ==
  \/ \E z \in TickZooms : setZoomLevel(Rat(z, 10))
  \/ \E width \in TickWidths : handleResize(width)
  \/ trackMouseDown(1)
  \/ \E deltaPixels \in TickDeltas :
       trackMouseMove(deltaPixels) /\ droneOffsets'[1] <= MaxSnapped
  \/ handleMouseUp

SpecTicks == InitTicks /\ [][NextTicks]_vars

(* A session in which the timeline's length changes while the clock runs:  *)
(* a 3 s flight on the timeline, a 5 s flight loaded once, removals,       *)
(* offsets set, the play mode toggled, a range set, seeks, play, pause,    *)
(* stop and ticks                                                          *)
SessionSeeks   == {130}
SessionOffsets == {20}
SessionRange   == [start |-> 10, end |-> 20, enabled |-> TRUE]

InitSession == InitLoaded(<<FlightB>>, TRUE) /\ lastOp = NoOp

NextSession ==
  \/ nextDroneId = 2 /\ addDroneStart(FlightA)
  \/ \E p \in pending : addDroneLoaded(p)
  \/ \E id \in DroneIds : removeDrone(id)
  \/ \E id \in DroneIds, o \in SessionOffsets : setDroneOffset(id, o)
  \/ togglePlayMode
  \/ updatePlaybackRange(SessionRange)
  \/ \E t \in SessionSeeks : seekTo(t)
  \/ play
  \/ pause
  \/ stop
  \/ animate
  \/ Advance

SpecSession == InitSession /\ [][NextSession]_vars

(* A run left to play out: the user's requests all arrive at wall time 0,  *)
(* then only ticks and the wall clock go on; every frame runs the pending  *)
(* tick and the wall clock keeps advancing                                 *)
NextPlayOut ==
  \/ now = 0 /\ play
  \/ now = 0 /\ \E t \in SeekTimes : seekTo(t)
  \/ now = 0 /\ \E sp \in Speeds : setPlaybackSpeed(sp)
  \/ now = 0 /\ \E r \in Ranges : updatePlaybackRange(r)
  \/ animate
  \/ AdvanceToEnd

SpecPlayOut ==
  InitClock /\ [][NextPlayOut]_vars /\ WF_vars(animate) /\ WF_vars(AdvanceToEnd)

(* The frames requested by the animation effect: the clock's handlers      *)
(* while the hook is mounted, the removal of the only flight, ticks, the   *)
(* wall clock and the unmounting of the component                          *)
NextFrames ==
  \/ mounted /\ play
  \/ mounted /\ pause
  \/ mounted /\ stop
  \/ mounted /\ \E t \in SessionSeeks : seekTo(t)
  \/ mounted /\ \E sp \in Speeds : setPlaybackSpeed(sp)
  \/ mounted /\ toggleLoop
  \/ mounted /\ \E r \in Ranges : updatePlaybackRange(r)
  \/ mounted /\ removeDrone(1)
  \/ animate
  \/ Advance
  \/ unmount

SpecFrames == InitClock /\ [][NextFrames]_vars

----------------------------------------------------------------------------
(* C1: for every non-empty sample sequence S sorted ascending by time and  *)
(* every query time t, findFrameIndexAtTime(S, t) is an index i within     *)
(* [0, length-1] with S[i].time <= t (or i = 0 when t < S[0].time), and no *)
(* index j > i has S[j].time <= t: of samples with equal time the latest   *)
(* one is returned.                                                        *)
C1_LatestSampleAtOrBefore ==
  (call.fn = "findFrameIndexAtTime" /\ call.done /\ Len(call.arg.frames) > 0) =>
    LET S == call.arg.frames
        t == call.arg.targetTime
        i == call.ret
    IN  /\ i \in 0..(Len(S) - 1)
        /\ (S[i + 1].time <= t \/ (i = 0 /\ t < S[1].time))
        /\ \A j \in (i + 1)..(Len(S) - 1) : ~(S[j + 1].time <= t)

(* What the claims call the effective start and end, and the time a tick   *)
(* is about to reach                                                       *)
EffectiveEnd   == IF playbackRange.enabled THEN playbackRange.end ELSE totalTime
EffectiveStart == IF playbackRange.enabled THEN playbackRange.start ELSE 0
CandidateTime  == pausedTimeRef + (now - startTimeRef) * playbackSpeed

(* C2, as claimed: while playing with loop enabled, a tick whose candidate *)
(* time exceeds the effective end yields currentTime = effectiveStart +    *)
(* (candidateTime - effectiveEnd): the overshoot is carried over the wrap. *)
C2_LoopWrapCarriesOvershoot ==
  [][(animate /\ loopEnabled /\ CandidateTime > EffectiveEnd)
       => currentTime' = EffectiveStart + (CandidateTime - EffectiveEnd)]_vars

(* C2, amended: while playing with loop enabled, a tick whose candidate    *)
(* time exceeds the effective end yields currentTime = effectiveStart, the *)
(* overshoot being discarded; with totalTime 10 s, speed 1 and no range, a *)
(* tick 1 s after a base of 9.5 s yields currentTime 0.                    *)
C2_LoopWrapDiscardsOvershoot ==
  [][(animate /\ loopEnabled /\ CandidateTime > EffectiveEnd)
       => /\ currentTime' = EffectiveStart
          /\ (totalTime = 100 /\ ~playbackRange.enabled /\ playbackSpeed = 10
                /\ pausedTimeRef = 95 /\ now - startTimeRef = 1) => currentTime' = 0]_vars

C2_Wrapped ==
  /\ lastOp.op = "animate" /\ lastOp.arg = "wrap"
  /\ loopEnabled /\ isPlaying
  /\ currentTime = EffectiveStart

(* C3: while playing with loop disabled, a tick whose candidate time       *)
(* exceeds the effective end sets currentTime to the effective end and     *)
(* isPlaying to false, and no tick with loop disabled leaves currentTime   *)
(* past the effective end.                                                 *)
C3_NonLoopStopsAtEnd ==
  [][(animate /\ ~loopEnabled)
       => /\ CandidateTime > EffectiveEnd => (currentTime' = EffectiveEnd /\ ~isPlaying')
          /\ currentTime' <= EffectiveEnd]_vars

C3_StoppedAtEnd ==
  /\ lastOp.op = "animate" /\ lastOp.arg = "end"
  /\ ~loopEnabled /\ ~isPlaying
  /\ currentTime = EffectiveEnd

(* C4: setPlaybackSpeed(s) stores min(4.0, max(0.1, s)) for every s        *)
(* (setPlaybackSpeed(100) stores 4.0), playbackSpeed is within [0.1, 4.0]  *)
(* in every reachable state, every request is accepted and none raises an  *)
(* error.                                                                  *)
C4_SpeedClamped ==
  /\ [](playbackSpeed >= 1 /\ playbackSpeed <= 40)
  /\ [](\A sp \in Speeds : ENABLED setPlaybackSpeed(sp))
  /\ [][\A sp \in Speeds : setPlaybackSpeed(sp)
          => /\ playbackSpeed' = (IF sp > 40 THEN 40 ELSE IF sp < 1 THEN 1 ELSE sp)
             /\ error' = error]_vars

C4_SpeedRequestClamped ==
  /\ lastOp.op = "setPlaybackSpeed" /\ lastOp.arg = 1000
  /\ playbackSpeed = 40

(* C5: setZoomLevel(z) stores z clamped to [0.1, 20.0]: setZoomLevel(0)    *)
(* stores 0.1, any z in [0.1, 20] is stored unchanged, any z > 20 stores   *)
(* 20.                                                                     *)
C5_ZoomClampedToTwenty ==
  lastOp.op = "setZoomLevel" =>
    zoomLevel = (IF RLt(RInt(20), lastOp.arg) THEN RInt(20)
                 ELSE IF RLt(lastOp.arg, Rat(1, 10)) THEN Rat(1, 10) ELSE lastOp.arg)

(* C6: seekTo(t) called twice in a row with the same t, no tick in         *)
(* between, leaves the same currentTime, the same clock base and the same  *)
(* per-track poses as the first call left, playing or paused.              *)
C6_SeekIdempotent ==
  [][\A t \in SeekTimes :
       (lastOp.op = "seekTo" /\ lastOp.arg = t /\ seekTo(t))
         => /\ currentTime' = currentTime
            /\ pausedTimeRef' = pausedTimeRef
            /\ isPlaying' = isPlaying
            /\ RenderedPoses' = RenderedPoses]_vars

C6_SoughtTwiceWhilePlaying ==
  /\ lastOp.op = "seekTo" /\ lastOp.n = 2
  /\ isPlaying
  /\ startTimeRef > 0
  /\ currentTime = 95
  /\ RenderedPoses[1] # NoPose

(* C7: for every track included in the timeline with non-empty samples and *)
(* every currentTime, with effectiveTime = currentTime - offset(track),    *)
(* the track emits a pose iff 0 <= effectiveTime <= time of its last       *)
(* sample, and the pose is the sample at index                             *)
(* findFrameIndexAtTime(samples, effectiveTime).                           *)
C7_PoseWindow ==
  \A i \in DOMAIN drones :
    LET d   == drones[i]
        eff == currentTime - (IF d.id \in DOMAIN droneOffsets THEN droneOffsets[d.id] ELSE 0)
    IN  (d.inTimeline /\ Len(d.frames) > 0) =>
          /\ RenderedPoses[d.id] # NoPose <=> (0 <= eff /\ eff <= d.frames[Len(d.frames)].time)
          /\ RenderedPoses[d.id] # NoPose =>
               RenderedPoses[d.id] = d.frames[findFrameIndexAtTime(d.frames, eff) + 1]

\* track A spans [0, 5] with offset 0, track B spans [0, 3] with offset 2,
\* currentTime 4.5: both emit a pose
C7_BothTracksEmit ==
  /\ Len(drones) = 2 /\ drones[1].inTimeline /\ drones[2].inTimeline
  /\ droneOffsets[1] = 0 /\ droneOffsets[2] = 20
  /\ totalTime = 50 /\ currentTime = 45
  /\ RenderedPoses[1] = drones[1].frames[2]
  /\ RenderedPoses[2] = drones[2].frames[1]

(* C8: after any sequence of addMarker and removeMarker calls the markers  *)
(* are ordered ascending by time; addMarker keeps every marker there was,  *)
(* equal times included, and adds one; removeMarker(id) removes exactly    *)
(* the marker with that id and leaves the others and their order.          *)
MarkerIds(ms) == {ms[i].id : i \in DOMAIN ms}
MarkerPos(ms, id) == CHOOSE i \in DOMAIN ms : ms[i].id = id
SameRelativeOrder(old, new) ==
  \A a, b \in MarkerIds(old) \cap MarkerIds(new) :
    MarkerPos(old, a) < MarkerPos(old, b) => MarkerPos(new, a) < MarkerPos(new, b)
C8_MarkersSorted ==
  /\ [](\A i, j \in DOMAIN markers : i < j => markers[i].time <= markers[j].time)
  /\ [][\A t \in MarkerTimes, ty \in MarkerTypes :
          addMarker(t, "sync1", ty)
            => /\ Len(markers') = Len(markers) + 1
               /\ Range(markers) \subseteq Range(markers')
               /\ \E m \in Range(markers') \ Range(markers) : m.time = t /\ m.label = "sync1"
               /\ SameRelativeOrder(markers, markers')]_vars
  /\ [][\A id \in 1..MaxMarkers :
          removeMarker(id)
            => /\ Range(markers') = {m \in Range(markers) : m.id # id}
               /\ Len(markers') = Cardinality(MarkerIds(markers) \ {id})
               /\ SameRelativeOrder(markers, markers')]_vars

\* a marker added at 2.3 and then one at 1.0: the sequence is [1.0, 2.3]
C8_LaterMarkerSortedFirst ==
  /\ Len(markers) = 2
  /\ markers[1].time = 10 /\ markers[1].id = 2
  /\ markers[2].time = 23 /\ markers[2].id = 1 /\ markers[2].label = "sync1"

(* C9: when addDrone's load fails the error message is stored ('CSV file   *)
(* is empty' for an empty file), isLoading becomes false, the drones list  *)
(* is unchanged and totalTime is unchanged.                                *)
C9_FailedLoadLeavesSession ==
  [][\A p \in pending :
       addDroneFailed(p)
         => /\ error' # ""
            /\ NonEmptyLines(p.file.text) = <<>> => error' = "CSV file is empty"
            /\ ~isLoading'
            /\ drones' = drones
            /\ totalTime' = totalTime
            /\ droneOffsets' = droneOffsets]_vars

C9_EmptyFileRejected ==
  /\ lastOp.op = "addDroneFailed"
  /\ error = "CSV file is empty"
  /\ ~isLoading
  /\ Len(drones) > 0 /\ totalTime > 0

(* C10: a CSV whose header names the columns time, x, y, z, roll, pitch,   *)
(* yaw is accepted by loadCsvData and yields the samples that the same     *)
(* data yields under the elapsed_time / drone_* names; a load of a         *)
(* non-empty text fails only when some required column is present under    *)
(* neither of its two names.                                               *)
HasColumn(header, k) == \E i \in DOMAIN header : header[i].s \in {k, StdName(k)}
RenamedToStd(src) ==
  LET lines == NonEmptyLines(src.text)
      std(c) == IF c.s \in Range(ColumnKeys) THEN Txt(StdName(c.s)) ELSE c
  IN  [src EXCEPT !.text = <<[i \in DOMAIN lines[1] |-> std(lines[1][i])]>> \o Tail(lines)]
C10_ColumnAliasesAccepted ==
  (call.fn = "loadCsvData" /\ call.done /\ call.arg.kind = "file"
     /\ NonEmptyLines(call.arg.text) # <<>>) =>
    LET header == NonEmptyLines(call.arg.text)[1]
    IN  /\ (\A k \in Range(ColumnKeys) : HasColumn(header, k)) => call.ret.ok
        /\ call.ret.ok => call.ret.frames = loadCsvData(RenamedToStd(call.arg)).frames

(* C11: for any fixed totalDuration, zoomLevel, viewport width and         *)
(* viewportOffset, pixelsToTime(timeToPixels(t)) = t for every time t and  *)
(* timeToPixels(pixelsToTime(p)) = p for every pixel p, in exact rational  *)
(* arithmetic.                                                             *)
RoundTripTimes  == {RInt(0), RInt(250), RInt(1000), RInt(-70), Rat(1, 3)}
RoundTripPixels == {RInt(0), RInt(400), RInt(-50), RInt(2000), Rat(7, 11)}

C11_TimePixelRoundTrip ==
  /\ \A t \in RoundTripTimes : pixelsToTime(timeToPixels(t)) = t
  /\ \A p \in RoundTripPixels : timeToPixels(pixelsToTime(p)) = p

C11_PannedAndZoomed ==
  /\ viewportOffset # RInt(0)
  /\ zoomLevel.d # 1
  /\ viewportWidth = 1950
  /\ timeToPixels(RInt(250)).d # 1

C13_RemoveCascades ==
  [][\A id \in DroneIds :
       removeDrone(id)
         => /\ \A i \in DOMAIN drones' : drones'[i].id # id
            /\ id \notin Range(selectedDrones')
            /\ id \notin DOMAIN droneOffsets'
            /\ \A other \in DOMAIN droneOffsets \ {id} :
                  other \in DOMAIN droneOffsets' /\ droneOffsets'[other] = droneOffsets[other]
            /\ selectedDrones' = SelectSeq(selectedDrones, LAMBDA sel : sel # id)]_vars

(* C14: when every loaded drone is included in the timeline, in every      *)
(* settled state totalDuration is the maximum over the drones of offset +  *)
(* last sample time in simultaneous mode, and the sum over the drones of   *)
(* last sample time, offsets ignored, in synchronous mode; a drone with no *)
(* samples counts as duration 0.                                           *)
DurationOf(d) == IF d.frames = <<>> THEN 0 ELSE d.frames[Len(d.frames)].time

RECURSIVE SumOver(_, _)
SumOver(ds, included) ==
  IF ds = <<>> THEN 0
  ELSE (IF included[Head(ds).id] THEN DurationOf(Head(ds)) ELSE 0) + SumOver(Tail(ds), included)

\* the total duration of the rule, the drones counted being those of included
RuleTotal(included) ==
  LET counted == {d \in Range(drones) : included[d.id]}
      ends    == {(IF d.id \in DOMAIN droneOffsets THEN droneOffsets[d.id] ELSE 0) + DurationOf(d) :
                    d \in counted}
  IN  IF playMode = "simultaneous"
      THEN (IF counted = {} THEN 0 ELSE CHOOSE m \in ends : \A e \in ends : e <= m)
      ELSE SumOver(drones, included)

C14_TotalDurationRule ==
  (\A i \in DOMAIN drones : drones[i].inTimeline)
    => totalTime = RuleTotal([id \in DroneIds |-> TRUE])

C14_ThreeTracksInSequence ==
  /\ Len(drones) = 3
  /\ \A i \in DOMAIN drones : drones[i].inTimeline
  /\ playMode = "synchronous"
  /\ droneOffsets[1] = 20 /\ droneOffsets[3] = 20
  /\ totalTime = 80

(* C15: only included tracks count towards totalDuration: a loaded drone   *)
(* whose inTimeline flag is false contributes nothing, adding it to or     *)
(* removing it from the timeline recomputes totalDuration, and when drones *)
(* are loaded but none is included totalDuration = 0.                      *)
C15_OnlyIncludedTracksCount ==
  totalTime = RuleTotal([id \in DroneIds |-> \E i \in DOMAIN drones :
                                               drones[i].id = id /\ drones[i].inTimeline])

(* C16: seekTo(t) in any state sets currentTime to min(max(t, 0),          *)
(* totalDuration), leaves isPlaying unchanged and, when playing, re-bases  *)
(* the clock: a tick right after the seek yields the seek target, and the  *)
(* tick that follows the seek yields the target plus the time played since *)
(* the seek, never a time counted from the position before the seek.       *)
C16_SeekSemantics ==
  /\ [][\A t \in SeekTimes :
          seekTo(t)
            => /\ currentTime' = (IF t < 0 THEN 0 ELSE IF t > totalTime THEN totalTime ELSE t)
               /\ isPlaying' = isPlaying
               /\ isPlaying => CandidateTime' = currentTime']_vars
  /\ [][(lastOp.op = "seekTo" /\ animate /\ lastOp'.arg = "advance")
          => currentTime' = currentTime + (now - startTimeRef) * playbackSpeed]_vars
  /\ [](lastOp.op = "seekTo" /\ isPlaying => startTimeRef <= now)

C16_SoughtBackWhilePlaying ==
  /\ lastOp.op = "seekTo" /\ lastOp.arg = -5 /\ lastOp.n = 1
  /\ isPlaying
  /\ playbackSpeed = 25
  /\ now = 3
  /\ startTimeRef = 3
  /\ currentTime = 0

(* C17: stop() from any state (playing, paused, stopped) sets isPlaying to *)
(* false and currentTime to the range start (PlaybackRange.start if the    *)
(* range is enabled, else 0), and a following play() advances from that    *)
(* range start.                                                            *)
RangeStart == IF playbackRange.enabled THEN playbackRange.start ELSE 0

C17_StopSemantics ==
  /\ [](ENABLED stop)
  /\ [][stop => (~isPlaying' /\ currentTime' = RangeStart)]_vars
  /\ [][(lastOp.op = "stop" /\ play) => (isPlaying' /\ CandidateTime' = RangeStart)]_vars
  /\ [](lastOp.op = "stop" => pausedTimeRef = RangeStart)

C17_PlayedAgainFromRangeStart ==
  /\ lastOp.op = "play" /\ lastOp.n = 1
  /\ isPlaying
  /\ ~loopEnabled
  /\ playbackRange.enabled
  /\ currentTime = 20
  /\ pausedTimeRef = 20
  /\ now = 3
  /\ startTimeRef = 3

(* C18: speed changes are not retroactive: when setPlaybackSpeed is called *)
(* while playing, the currentTime the next tick produces is the time       *)
(* accumulated under the old speed up to the change plus (wall time since  *)
(* the change) x (new speed).  Both sides grow by the new speed from the   *)
(* change on, so they agree at every tick exactly when they agree for a    *)
(* tick at the instant of the change: the candidate time is the same       *)
(* before and after the call.                                              *)
C18_SpeedChangeNotRetroactive ==
  [][\A sp \in Speeds :
       (isPlaying /\ CandidateTime <= EffectiveEnd /\ setPlaybackSpeed(sp))
         => CandidateTime' = CandidateTime]_vars

(* C19: in every reachable state 0 <= viewportOffset <= max(0,             *)
(* totalPixelWidth - viewportPixelWidth), totalPixelWidth being viewport   *)
(* width x the stored zoomLevel, after any sequence of shift-drag pans,    *)
(* wheel zooms, auto-pan adjustments, zoom changes and window resizes.     *)
C19_ScrollWithinBounds ==
  LET w               == RInt(effectiveWidth)
      totalPixelWidth == RMul(w, zoomLevel)
  IN  /\ RLe(RInt(0), viewportOffset)
      /\ RLe(viewportOffset, RMax(RInt(0), RSub(totalPixelWidth, w)))

(* C20: for every wheel zoom gesture at cursor pixel mouseX, focalTime     *)
(* being the time under mouseX before the gesture (pixelsToTime with the   *)
(* old zoom and offset), timeToPixels(focalTime) computed after the        *)
(* gesture with the stored new zoomLevel and the new viewportOffset equals *)
(* mouseX.                                                                 *)
C20_ZoomAboutCursor ==
  [][\A x \in WheelXs, zoomIn \in BOOLEAN :
       handleWheel(x, zoomIn)
         => LET mouseX    == RInt(Max(0, Min(x, effectiveWidth)))
                focalTime == pixelsToTime(mouseX)
            IN  RSub(PixelPosition(focalTime, totalTime', zoomLevel', viewportWidth'),
                     viewportOffset') = mouseX]_vars

(* C21: play() from any non-playing state uses the currentTime at the     *)
(* moment of the call as the resume base: the first tick after play()      *)
(* yields that currentTime plus elapsed wall time x speed, so right after  *)
(* the call the candidate time of a tick equals currentTime, never an      *)
(* earlier time.                                                           *)
C21_ResumeFromCurrentTime ==
  [][(~isPlaying /\ play) => CandidateTime' = currentTime]_vars

(* C22: while playing with loop enabled, a tick whose candidate time      *)
(* exceeds the effective end sets currentTime to the effective start,      *)
(* re-bases the clock reference to now with that start as base and leaves  *)
(* isPlaying true; the tick that follows a wrap advances from the          *)
(* effective start by the wall time elapsed since the wrap x speed.        *)
C22_LoopWrapTarget ==
  /\ [][(animate /\ loopEnabled /\ CandidateTime > EffectiveEnd)
          => /\ currentTime' = EffectiveStart
             /\ startTimeRef' = now
             /\ pausedTimeRef' = EffectiveStart
             /\ isPlaying']_vars
  /\ [][(lastOp.op = "animate" /\ lastOp.arg = "wrap" /\ animate /\ lastOp'.arg = "advance")
          => /\ currentTime = EffectiveStart
             /\ currentTime' = EffectiveStart + (now - startTimeRef) * playbackSpeed]_vars

C22_WrappedToRangeStart ==
  /\ lastOp.op = "animate" /\ lastOp.arg = "wrap"
  /\ playbackRange.enabled /\ currentTime = playbackRange.start
  /\ pausedTimeRef = playbackRange.start
  /\ startTimeRef = now /\ now > 0
  /\ isPlaying

(* C25: at every tick a drone that is not included in the timeline         *)
(* (inTimeline false) or that is hidden (timelineHidden true) produces no  *)
(* pose for the rendering collaborator, whatever currentTime and its       *)
(* offset are.                                                             *)
C25_OnlyShownTracksEmit ==
  \A i \in DOMAIN drones :
    LET d == drones[i]
    IN  (~d.inTimeline \/ d.timelineHidden) =>
          \/ d.id \notin DOMAIN RenderedPoses
          \/ RenderedPoses[d.id] = NoPose

(* C29: with two or more addDrone calls in flight at once, in any          *)
(* interleaving of their completions and failures, isLoading is true       *)
(* exactly while at least one load is still in flight, and a failure       *)
(* message set by one load is not erased by another load that merely       *)
(* starts or succeeds.                                                     *)
C29_LoadingFlagTruthful ==
  /\ [](isLoading <=> pending # {})
  /\ [][(error # "" /\ (\/ \E file \in PickedFiles : addDroneStart(file)
                        \/ \E p \in pending : addDroneLoaded(p)))
          => error' = error]_vars

(* C26: for every pixelsPerSecond the major step of getTickIntervals is    *)
(* the smallest value of the ladder 0.01 s .. 86400 s that is >= 80 /      *)
(* pixelsPerSecond, or 86400 s when none qualifies; the minor step is      *)
(* major/10 when major >= 60 s, major/5 when 0.1 s <= major < 60 s and     *)
(* major/2 when major < 0.1 s; a dragged track's offset moves by a whole   *)
(* number of these minor steps (or stops at 0).                            *)
PixelsPerSecond == RDiv(RMul(RInt(effectiveWidth), zoomLevel), RInt(baseTimeRange))

TickIntervalRule ==
  LET need   == RDiv(RInt(80), PixelsPerSecond)
      ladder == Range(niceIntervals)
      major  == getTickIntervals.timeStep
      minor  == getTickIntervals.minorStep
  IN  /\ major \in ladder
      /\ IF \E v \in ladder : RLe(need, v)
         THEN RLe(need, major) /\ \A v \in ladder : RLe(need, v) => RLe(major, v)
         ELSE major = RInt(864000)
      /\ RLe(RInt(600), major) => minor = RDiv(major, RInt(10))
      /\ (RLe(RInt(1), major) /\ RLt(major, RInt(600))) => minor = RDiv(major, RInt(5))
      /\ RLt(major, RInt(1)) => minor = RDiv(major, RInt(2))

C26_TickIntervalRule ==
  /\ []TickIntervalRule
  /\ [][(\E deltaPixels \in TickDeltas : trackMouseMove(deltaPixels))
          => \/ droneOffsets'[1] = 0
             \/ RDiv(RInt(droneOffsets'[1] - draggingTrack.startOffset),
                     getTickIntervals.minorStep).d = 1]_vars

\* a track dragged to a positive offset while the major step is below
\* 0.1 s (10x zoom in a 9950 pixel window over a 60 s base range)
C26_SnappedOnFinestTier ==
  /\ lastOp.op = "setDroneOffset" /\ draggingTrack # NoDrag
  /\ droneOffsets[1] > 0
  /\ RLt(getTickIntervals.timeStep, RInt(1))
  /\ getTickIntervals.minorStep = RDiv(getTickIntervals.timeStep, RInt(2))

(* C24: a change of totalDuration (drone added or removed, offset changed, *)
(* playMode toggled) leaves the start, end and enabled fields of a range   *)
(* previously set with updatePlaybackRange unchanged.                      *)
C24_RangeIndependentOfTotal ==
  [][(playbackRange = SessionRange /\ totalTime' # totalTime)
       => playbackRange' = playbackRange]_vars

(* C28: in every settled state reachable by any sequence of drone loads    *)
(* and removals, setDroneOffset, togglePlayMode, updatePlaybackRange,      *)
(* seekTo, play, pause, stop and ticks, 0 <= currentTime <= totalDuration. *)
C28_CurrentTimeInsideTimeline ==
  0 <= currentTime /\ currentTime <= totalTime

C30_PlaybackReachesEnd ==
  (isPlaying /\ ~loopEnabled /\ totalTime > 0 /\ now > 0)
    ~> (~isPlaying /\ currentTime = EffectiveEnd)

\* a run at speed 0.1 over the whole 10 s flight, ended by the tick 101 s
\* after play()
C30_PlayedOutSlowly ==
  /\ lastOp.op = "animate" /\ lastOp.arg = "end"
  /\ ~isPlaying /\ currentTime = 100 /\ currentTime = EffectiveEnd
  /\ playbackSpeed = 1 /\ pausedTimeRef = 0 /\ now = 101

(* C27: at any moment at most one tick callback is pending, and once      *)
(* isPlaying has become false (by pause, stop or the automatic pause at    *)
(* the end) or the hook is torn down, and the effect cleanup has run, no   *)
(* tick callback is pending and no tick changes currentTime.               *)
C27_TicksDoNotLeak ==
  /\ [](pendingTicks <= 1)
  /\ []((~isPlaying \/ ~mounted) => pendingTicks = 0)
  /\ [][(~isPlaying \/ ~mounted) => ~animate]_vars

\* the tick that pauses at the end requested one more frame before the
\* effect's cleanup ran; it is cancelled
C27_PausedAtEndWithoutTick ==
  /\ lastOp.op = "animate" /\ lastOp.arg = "end"
  /\ ~isPlaying /\ mounted
  /\ pendingTicks = 0 /\ ~refPending

====
